---- MODULE Spec2Model ----
(***************************************************************************)
(* binconvert (src/convert.py): the layout descriptor compiler             *)
(* gen_format_string and the endianness transcoder convert.                *)
(*                                                                         *)
(* Python strings are modelled as sequences of one-character strings, so   *)
(* that split(':'), int(), str(), str.format and the struct module's       *)
(* format parser are computed character by character as the code does.     *)
(* The struct module is modelled for the platform x86-64 Linux (LP64,      *)
(* little-endian): native mode aligns 'h' to 2 and 'i' to 4 bytes.         *)
(* The interpreter is either Python 2, where / on two ints floors, or      *)
(* Python 3, where it is true division (variable truediv).                 *)
(***************************************************************************)
EXTENDS Integers, Sequences, FiniteSets, TLC

\* ------------------------------------------------------------------ bounds
\* longest descriptor (number of tokens) the compiler is given
MaxTokens == 2
\* largest total_size supplied to the compiler
MaxSize == 10
\* longest file the transcoder is given
MaxBuf == 4

\* ------------------------------------------------------------ Python values
\* an optional value: None, or Some(x)
None == <<>>
Some(x) == <<x>>
The(o) == o[1]

Min(a, b) == IF a < b THEN a ELSE b

Digits == {"0", "1", "2", "3", "4", "5", "6", "7", "8", "9"}

DigitVal(c) ==
    CASE c = "0" -> 0 [] c = "1" -> 1 [] c = "2" -> 2 [] c = "3" -> 3
      [] c = "4" -> 4 [] c = "5" -> 5 [] c = "6" -> 6 [] c = "7" -> 7
      [] c = "8" -> 8 [] c = "9" -> 9

DigitChar(d) ==
    CASE d = 0 -> "0" [] d = 1 -> "1" [] d = 2 -> "2" [] d = 3 -> "3"
      [] d = 4 -> "4" [] d = 5 -> "5" [] d = 6 -> "6" [] d = 7 -> "7"
      [] d = 8 -> "8" [] d = 9 -> "9"

\* s * n for a Python str s: n copies of s, the empty string when n <= 0
RECURSIVE Repeat(_, _)
Repeat(s, n) == IF n <= 0 THEN <<>> ELSE s \o Repeat(s, n - 1)

\* str(n) of a non-negative int
RECURSIVE StrNat(_)
StrNat(n) ==
    IF n < 10 THEN <<DigitChar(n)>>
    ELSE StrNat(n \div 10) \o <<DigitChar(n % 10)>>

\* str(n) of an int: decimal digits, with a leading '-' when negative
Str(n) == IF n < 0 THEN <<"-">> \o StrNat(-n) ELSE StrNat(n)

\* the value of a non-empty run of decimal digits
RECURSIVE NatOfDigits(_, _)
NatOfDigits(s, acc) ==
    IF s = <<>> THEN acc
    ELSE NatOfDigits(Tail(s), 10 * acc + DigitVal(Head(s)))

AllDigits(s) == s # <<>> /\ \A k \in 1..Len(s) : s[k] \in Digits

\* int(s): an optional sign and decimal digits, otherwise ValueError
IntOk(s) ==
    \/ AllDigits(s)
    \/ s # <<>> /\ Head(s) \in {"-", "+"} /\ AllDigits(Tail(s))

Int_(s) ==
    IF Head(s) = "-" THEN -NatOfDigits(Tail(s), 0)
    ELSE IF Head(s) = "+" THEN NatOfDigits(Tail(s), 0)
    ELSE NatOfDigits(s, 0)

\* s.split(':'): the pieces of s between the colons
RECURSIVE Split(_, _, _)
Split(s, cur, acc) ==
    IF s = <<>> THEN Append(acc, cur)
    ELSE IF Head(s) = ":" THEN Split(Tail(s), <<>>, Append(acc, cur))
    ELSE Split(Tail(s), Append(cur, Head(s)), acc)

\* s.replace(old, new) for a one-character old
RECURSIVE Replace(_, _, _)
Replace(s, old, new) ==
    IF s = <<>> THEN <<>>
    ELSE (IF Head(s) = old THEN new ELSE <<Head(s)>>) \o Replace(Tail(s), old, new)

\* the placeholder '{0}' of str.format
Placeholder == <<"{", "0", "}">>

\* fmt.format(arg): every '{0}' of fmt replaced by arg
RECURSIVE Format(_, _)
Format(s, arg) ==
    IF s = <<>> THEN <<>>
    ELSE IF Len(s) >= 3 /\ SubSeq(s, 1, 3) = Placeholder
         THEN arg \o Format(SubSeq(s, 4, Len(s)), arg)
         ELSE <<Head(s)>> \o Format(Tail(s), arg)

\* ---------------------------------------------------------- struct module
\* the type codes modelled: char, signed char, bool, pad byte, short, int,
\* char[] and Pascal string
Codes == {"c", "b", "?", "x", "h", "i", "s", "p"}

\* byte width of one item of a code (the same in native and standard mode
\* for the codes modelled)
ItemSize(c) == CASE c = "h" -> 2 [] c = "i" -> 4 [] OTHER -> 1

\* native alignment of a code
NativeAlign(c) == CASE c = "h" -> 2 [] c = "i" -> 4 [] OTHER -> 1

\* the format parser accepts s: every code is known and no repeat count is
\* left without a code (otherwise struct.error)
RECURSIVE ParseOk(_, _)
ParseOk(s, pending) ==
    IF s = <<>> THEN ~pending
    ELSE IF Head(s) \in Digits THEN ParseOk(Tail(s), TRUE)
    ELSE IF Head(s) \in Codes THEN ParseOk(Tail(s), FALSE)
    ELSE FALSE

\* the items [n |-> repeat count, c |-> code] of an accepted format body
RECURSIVE ParseItems(_, _, _)
ParseItems(s, num, acc) ==
    IF s = <<>> THEN acc
    ELSE IF Head(s) \in Digits
         THEN ParseItems(Tail(s),
                         (IF num = -1 THEN 0 ELSE 10 * num) + DigitVal(Head(s)),
                         acc)
         ELSE ParseItems(Tail(s), -1,
                         Append(acc, [n |-> IF num = -1 THEN 1 ELSE num,
                                      c |-> Head(s)]))

OrderChars == {"@", "=", "<", ">", "!"}

\* the order character of a format: native '@' when none is given
OrderOf(fmt) ==
    IF fmt # <<>> /\ Head(fmt) \in OrderChars THEN Head(fmt) ELSE "@"

BodyOf(fmt) ==
    IF fmt # <<>> /\ Head(fmt) \in OrderChars THEN Tail(fmt) ELSE fmt

AlignUp(size, a) == ((size + a - 1) \div a) * a

\* total size of the items; native mode pads each item to its alignment
RECURSIVE SizeOfItems(_, _, _)
SizeOfItems(items, native, size) ==
    IF items = <<>> THEN size
    ELSE LET it == Head(items)
             at == IF native THEN AlignUp(size, NativeAlign(it.c)) ELSE size
         IN  SizeOfItems(Tail(items), native, at + it.n * ItemSize(it.c))

\* the struct module accepts fmt (no struct.error from calcsize)
ValidFormat(fmt) == ParseOk(BodyOf(fmt), FALSE)

ItemsOf(fmt) == ParseItems(BodyOf(fmt), -1, <<>>)

\* struct.calcsize(fmt) of an accepted format: its size in bytes
calcsize(fmt) == SizeOfItems(ItemsOf(fmt), OrderOf(fmt) = "@", 0)

\* ------------------------------------------------------ gen_format_string
\* Python truthiness of an optional str: None and '' are both false
TruthyStr(o) == o # None /\ The(o) # <<>>

\* Python truthiness of an optional int: None and 0 are both false
TruthyInt(o) == o # None /\ The(o) # 0

\* the fallback descriptor ['*']
Fallback == <<<<"*">>>>

\* what a call leaves behind: how it ended, the format string it returned
\* and the contents of the caller's list object (which it also returns)
Return(fmt, formats) ==
    [status |-> "ok", error |-> "", fmt |-> fmt, formats |-> formats]
Raise(kind, formats) ==
    [status |-> "error", error |-> kind, fmt |-> <<>>, formats |-> formats]

\* the loop's locals before the first token
ScanInit ==
    [fmt |-> <<>>, cumsize |-> 0, special_pattern |-> None,
     special_index |-> 0, error |-> ""]

\* one iteration of the loop over the tokens: token i of the descriptor
ScanToken(st, i, token) ==
    LET pattern_info == Split(token, <<>>, <<>>)
        pattern == pattern_info[1]
    IN  IF Len(pattern_info) = 1 THEN
            IF ~ValidFormat(pattern) THEN [st EXCEPT !.error = "UnknownPattern"]
            ELSE [st EXCEPT !.cumsize = @ + calcsize(pattern),
                            !.fmt = @ \o pattern]
        ELSE IF pattern_info[2] = <<>> THEN [st EXCEPT !.error = "IndexError"]
        ELSE IF pattern_info[2][Len(pattern_info[2])] = "*" THEN
            IF TruthyStr(st.special_pattern)
            THEN [st EXCEPT !.error = "MultipleWildcards"]
            ELSE [st EXCEPT !.special_pattern = Some(pattern),
                            !.special_index = i,
                            !.fmt = @ \o Placeholder]
        ELSE IF ~IntOk(pattern_info[2]) THEN [st EXCEPT !.error = "ValueError"]
        ELSE LET count == Int_(pattern_info[2])
                 result == Repeat(pattern, count)
             IN  IF ~ValidFormat(result)
                 THEN [st EXCEPT !.error = "UnknownPattern"]
                 ELSE [st EXCEPT !.cumsize = @ + calcsize(result),
                                 !.fmt = @ \o result]

\* the loop: the tokens from index i on, left to right, until one raises
RECURSIVE Scan(_, _, _)
Scan(st, formats, i) ==
    IF i > Len(formats) \/ st.error # "" THEN st
    ELSE Scan(ScanToken(st, i, formats[i]), formats, i + 1)

\* the final sanity check and the return
FinalCheck(fmt, formats, size) ==
    IF ~ValidFormat(<<"=">> \o fmt) THEN Raise("UnknownPattern", formats)
    ELSE IF TruthyInt(size) /\ The(size) # calcsize(<<"=">> \o fmt)
         THEN Raise("SizeMismatch", formats)
         ELSE Return(fmt, formats)

\* Resolve with the wildcard rewritten to the remaining byte count instead
\* of the repeat count (str(remaining) for str(count))
ResolveWritesRemaining(st, formats, size, expand, truediv) ==
    LET special_pattern == The(st.special_pattern)
        remaining == The(size) - st.cumsize
    IN  IF ~ValidFormat(special_pattern) THEN Raise("UnknownPattern", formats)
        ELSE LET chunksize == calcsize(special_pattern)
             IN  IF chunksize = 0 THEN Raise("ZeroDivisionError", formats)
                 ELSE IF remaining % chunksize # 0
                      THEN Raise("DivisionError", formats)
                 ELSE IF truediv THEN Raise("TypeError", formats)
                 ELSE LET count == remaining \div chunksize
                          result == Repeat(special_pattern, count)
                          fmt == Format(st.fmt, result)
                          expanded ==
                              IF expand
                              THEN [formats EXCEPT ![st.special_index] =
                                       Replace(@, "*", Str(remaining))]
                              ELSE formats
                      IN  FinalCheck(fmt, expanded, size)

\* the allocation of the remaining bytes to the wildcard pattern.
\* truediv: the interpreter's / on two ints is true division (Python 3), so
\* count is a float and count*special_pattern raises TypeError; otherwise
\* (Python 2) / is floor division.
Resolve(st, formats, size, expand, truediv) ==
    LET special_pattern == The(st.special_pattern)
        remaining == The(size) - st.cumsize
    IN  IF ~ValidFormat(special_pattern) THEN Raise("UnknownPattern", formats)
        ELSE LET chunksize == calcsize(special_pattern)
             IN  IF chunksize = 0 THEN Raise("ZeroDivisionError", formats)
                 ELSE IF remaining % chunksize # 0
                      THEN Raise("DivisionError", formats)
                 ELSE IF truediv THEN Raise("TypeError", formats)
                 ELSE LET count == remaining \div chunksize
                          result == Repeat(special_pattern, count)
                          fmt == Format(st.fmt, result)
                          expanded ==
                              IF expand
                              THEN [formats EXCEPT ![st.special_index] =
                                       Replace(@, "*", Str(count))]
                              ELSE formats
                      IN  FinalCheck(fmt, expanded, size)

\* gen_format_string without the early return for a missing size: the
\* unresolved placeholder reaches the final sanity check
gen_format_string_NoDeferral(formats, size, expand, truediv) ==
    IF formats = Fallback THEN Return(<<"*">>, formats)
    ELSE LET st == Scan(ScanInit, formats, 1)
         IN  IF st.error # "" THEN Raise(st.error, formats)
             ELSE IF TruthyStr(st.special_pattern) /\ size # None
                  THEN Resolve(st, formats, size, expand, truediv)
                  ELSE FinalCheck(st.fmt, formats, size)

\* gen_format_string(formats, size, expand)
gen_format_string(formats, size, expand, truediv) ==
    IF formats = Fallback THEN Return(<<"*">>, formats)
    ELSE LET st == Scan(ScanInit, formats, 1)
         IN  IF st.error # "" THEN Raise(st.error, formats)
             ELSE IF TruthyStr(st.special_pattern) THEN
                      IF size = None THEN Return(st.fmt, formats)
                      ELSE Resolve(st, formats, size, expand, truediv)
                  ELSE FinalCheck(st.fmt, formats, size)

\* ------------------------------------------------- inputs of the compiler
\* patterns: the empty pattern, an int, a char followed by an int (native
\* size 8, packed size 5) and a 2-byte raw run
Patterns == {<<>>, <<"i">>, <<"c", "i">>, <<"2", "s">>}

\* counts: omitted, the literal 2, the wildcard
CountSuffixes == {<<>>, <<":", "2">>, <<":", "*">>}

Tokens == {p \o c : p \in Patterns, c \in CountSuffixes} \cup {<<"*">>}

RECURSIVE SeqsUpTo(_, _)
SeqsUpTo(S, n) ==
    IF n = 0 THEN {<<>>}
    ELSE LET shorter == SeqsUpTo(S, n - 1)
         IN  shorter \cup {Append(q, x) : q \in shorter, x \in S}

Descriptors == SeqsUpTo(Tokens, MaxTokens) \ {<<>>}

Sizes == {None} \cup {Some(n) : n \in 0..MaxSize}

\* ------------------------------------------------------ compiler's state
VARIABLES
    formats,    \* the caller's token list object
    size,       \* the total_size argument of the first call
    expand,     \* the expand argument of the first call
    truediv,    \* the interpreter: TRUE Python 3, FALSE Python 2
    supplied,   \* the tokens the list held when the first call was made
    ret,        \* the outcome of the first call
    size2,      \* the total_size argument of the later call
    expand2,    \* the expand argument of the later call
    ret2,       \* the outcome of the later call
    pc          \* "start", "called", "recalled"

compiler == <<formats, size, expand, truediv, supplied, ret, size2, expand2, ret2, pc>>

NoReturn == [status |-> "none", error |-> "", fmt |-> <<>>, formats |-> <<>>]

InitCompiler ==
    /\ formats \in Descriptors
    /\ size \in Sizes
    /\ expand \in BOOLEAN
    /\ truediv \in BOOLEAN
    /\ supplied = formats
    /\ ret = NoReturn
    /\ size2 = None
    /\ expand2 = FALSE
    /\ ret2 = NoReturn
    /\ pc = "start"

\* fmt, expanded_formats = gen_format_string(formats, size, expand)
Call ==
    /\ pc = "start"
    /\ ret' = gen_format_string(formats, size, expand, truediv)
    /\ formats' = ret'.formats
    /\ pc' = "called"
    /\ UNCHANGED <<size, expand, truediv, supplied, size2, expand2, ret2>>

\* a later call with the list the first call returned (main exits when the
\* call raises, so a later call follows a return only)
CallAgain ==
    /\ pc = "called"
    /\ ret.status = "ok"
    /\ \E sz \in Sizes, ex \in BOOLEAN :
          /\ size2' = sz
          /\ expand2' = ex
          /\ ret2' = gen_format_string(formats, sz, ex, truediv)
    /\ formats' = ret2'.formats
    /\ pc' = "recalled"
    /\ UNCHANGED <<size, expand, truediv, supplied, ret>>

\* ------------------------------------------------- struct.unpack and pack
\* a decoded value: an int ("int"), a bool ("bool") or a bytes object ("bytes")
IntValue(n) == [k |-> "int", n |-> n, s |-> <<>>]
BoolValue(b) == [k |-> "bool", n |-> IF b THEN 1 ELSE 0, s |-> <<>>]
BytesValue(bs) == [k |-> "bytes", n |-> 0, s |-> bs]

RECURSIVE Reverse(_)
Reverse(bs) == IF bs = <<>> THEN <<>> ELSE Append(Reverse(Tail(bs)), Head(bs))

RECURSIVE Zeros(_)
Zeros(n) == IF n <= 0 THEN <<>> ELSE <<0>> \o Zeros(n - 1)

\* the signed integer held by bytes given most significant byte first
RECURSIVE Accumulate(_, _)
Accumulate(bs, acc) ==
    IF bs = <<>> THEN acc ELSE Accumulate(Tail(bs), 256 * acc + Head(bs))

DecodeInt(bs, order) ==
    LET msb == IF order = "<" THEN Reverse(bs) ELSE bs
        top == IF Head(msb) >= 128 THEN Head(msb) - 256 ELSE Head(msb)
    IN  Accumulate(Tail(msb), top)

\* the two's complement bytes of v, least significant byte first
RECURSIVE LsbBytes(_, _)
LsbBytes(v, width) ==
    IF width = 0 THEN <<>> ELSE <<v % 256>> \o LsbBytes(v \div 256, width - 1)

EncodeInt(v, width, order) ==
    IF order = "<" THEN LsbBytes(v, width) ELSE Reverse(LsbBytes(v, width))

\* v fits a signed integer of the code's width (an 'i' holds every integer
\* the decoder of 4 bytes produces)
InRange(v, c) ==
    CASE c = "b" -> v >= -128 /\ v <= 127
      [] c = "h" -> v >= -32768 /\ v <= 32767
      [] OTHER -> TRUE

\* the value one field of code c decodes to
DecodeField(bs, c, order) ==
    CASE c = "c" -> BytesValue(bs)
      [] c = "?" -> BoolValue(bs[1] # 0)
      [] OTHER -> IntValue(DecodeInt(bs, order))

\* the values of n consecutive fields of code c
RECURSIVE DecodeFields(_, _, _, _)
DecodeFields(bs, n, c, order) ==
    IF n = 0 THEN <<>>
    ELSE <<DecodeField(SubSeq(bs, 1, ItemSize(c)), c, order)>>
         \o DecodeFields(SubSeq(bs, ItemSize(c) + 1, Len(bs)), n - 1, c, order)

\* the values of one item: none for pad bytes, one bytes object for 's' and
\* 'p' (a Pascal string keeps the bytes its length byte counts, at most
\* n - 1), n values otherwise
DecodeItem(bs, it, order) ==
    CASE it.c = "x" -> <<>>
      [] it.c = "s" -> <<BytesValue(bs)>>
      [] it.c = "p" ->
            IF it.n = 0 THEN <<BytesValue(<<>>)>>
            ELSE <<BytesValue(SubSeq(bs, 2, 1 + Min(bs[1], it.n - 1)))>>
      [] OTHER -> DecodeFields(bs, it.n, it.c, order)

RECURSIVE UnpackItems(_, _, _)
UnpackItems(items, bs, order) ==
    IF items = <<>> THEN <<>>
    ELSE LET it == Head(items)
             w == it.n * ItemSize(it.c)
         IN  DecodeItem(SubSeq(bs, 1, w), it, order)
             \o UnpackItems(Tail(items), SubSeq(bs, w + 1, Len(bs)), order)

\* struct.unpack(fmt, stream) for an accepted fmt and a stream of its size
unpack(fmt, stream) == UnpackItems(ItemsOf(fmt), stream, OrderOf(fmt))

\* the number of values an item takes
ValuesOf(it) ==
    CASE it.c = "x" -> 0 [] it.c \in {"s", "p"} -> 1 [] OTHER -> it.n

\* the value v is one the code c packs
FieldOk(v, c) ==
    CASE c \in {"c"} -> v.k = "bytes" /\ Len(v.s) = 1
      [] c \in {"s", "p"} -> v.k = "bytes"
      [] c = "?" -> TRUE
      [] OTHER -> v.k \in {"int", "bool"} /\ InRange(v.n, c)

RECURSIVE PackOk(_, _)
PackOk(items, data) ==
    IF items = <<>> THEN data = <<>>
    ELSE LET it == Head(items)
             k == ValuesOf(it)
         IN  /\ Len(data) >= k
             /\ \A j \in 1..k : FieldOk(data[j], it.c)
             /\ PackOk(Tail(items), SubSeq(data, k + 1, Len(data)))

\* the bytes one value of code c encodes to
EncodeField(v, c, order) ==
    CASE c = "c" -> v.s
      [] c = "?" -> <<IF v.k = "bytes" THEN (IF v.s = <<>> THEN 0 ELSE 1)
                      ELSE (IF v.n = 0 THEN 0 ELSE 1)>>
      [] OTHER -> EncodeInt(v.n, ItemSize(c), order)

RECURSIVE EncodeFields(_, _, _)
EncodeFields(vs, c, order) ==
    IF vs = <<>> THEN <<>>
    ELSE EncodeField(Head(vs), c, order) \o EncodeFields(Tail(vs), c, order)

\* the bytes of one item: zeros for pad bytes; an 's' value cut or
\* zero-padded to n bytes; a 'p' value as its length byte, its bytes (at
\* most n - 1) and zero padding
EncodeItem(vs, it, order) ==
    CASE it.c = "x" -> Zeros(it.n)
      [] it.c = "s" ->
            SubSeq(vs[1].s, 1, Min(Len(vs[1].s), it.n))
            \o Zeros(it.n - Len(vs[1].s))
      [] it.c = "p" ->
            IF it.n = 0 THEN <<>>
            ELSE LET len == Min(Len(vs[1].s), it.n - 1)
                 IN  <<len>> \o SubSeq(vs[1].s, 1, len) \o Zeros(it.n - 1 - len)
      [] OTHER -> EncodeFields(vs, it.c, order)

RECURSIVE PackItems(_, _, _)
PackItems(items, data, order) ==
    IF items = <<>> THEN <<>>
    ELSE LET it == Head(items)
             k == ValuesOf(it)
         IN  EncodeItem(SubSeq(data, 1, k), it, order)
             \o PackItems(Tail(items), SubSeq(data, k + 1, Len(data)), order)

\* struct.pack(fmt, *data) for an accepted fmt and data it packs
pack(fmt, data) == PackItems(ItemsOf(fmt), data, OrderOf(fmt))

\* ---------------------------------------------------------------- convert
\* sys.byteorder of the platform modelled
sys_byteorder == "little"

\* what a call leaves behind: how it ended and the files
Converted(fs) == [status |-> "ok", error |-> "", files |-> fs]
Failed(kind, fs) == [status |-> "error", error |-> kind, files |-> fs]

\* the format convert hands to struct: the fallback '*' is one 'c' per byte
\* of the source file
FormatFor(fs, source, fmt) ==
    IF fmt = <<"*">> THEN Repeat(<<"c">>, Len(fs[source])) ELSE fmt

\* the default destination is the source
DestinationFor(source, destination) ==
    IF destination = None THEN source ELSE The(destination)

\* the default byte order is the platform's
OrderFor(byte_order) ==
    IF byte_order = None THEN sys_byteorder ELSE The(byte_order)

\* the order character for unpacking and for packing
FmtIn(order, fmt) ==
    IF order = "little" THEN <<">">> \o fmt ELSE <<"<">> \o fmt
FmtOut(order, fmt) ==
    IF order = "little" THEN <<"<">> \o fmt ELSE <<">">> \o fmt

\* convert with the destination opened for writing before the source is
\* read and unpacked
convert_OpensFirst(fs, source, destination, byte_order, fmt) ==
    LET f == FormatFor(fs, source, fmt)
        dst == DestinationFor(source, destination)
        fmt_in == FmtIn(OrderFor(byte_order), f)
        fmt_out == FmtOut(OrderFor(byte_order), f)
        opened == [fs EXCEPT ![dst] = <<>>]
        stream == opened[source]
    IN  IF ~ValidFormat(fmt_in) THEN Failed("UnknownPattern", opened)
        ELSE IF Len(stream) # calcsize(fmt_in)
             THEN Failed("LayoutSizeMismatch", opened)
        ELSE LET data == unpack(fmt_in, stream)
             IN  IF ~PackOk(ItemsOf(fmt_out), data)
                 THEN Failed("PackError", opened)
                 ELSE Converted([opened EXCEPT ![dst] = pack(fmt_out, data)])

\* convert(source, destination, byte_order, fmt) on the files fs:
\* read and unpack the source, then open the destination for writing (which
\* truncates it) and write the packed data
convert(fs, source, destination, byte_order, fmt) ==
    LET f == FormatFor(fs, source, fmt)
        dst == DestinationFor(source, destination)
        fmt_in == FmtIn(OrderFor(byte_order), f)
        fmt_out == FmtOut(OrderFor(byte_order), f)
        stream == fs[source]
    IN  IF ~ValidFormat(fmt_in) THEN Failed("UnknownPattern", fs)
        ELSE IF Len(stream) # calcsize(fmt_in)
             THEN Failed("LayoutSizeMismatch", fs)
        ELSE LET data == unpack(fmt_in, stream)
                 opened == [fs EXCEPT ![dst] = <<>>]
             IN  IF ~PackOk(ItemsOf(fmt_out), data)
                 THEN Failed("PackError", opened)
                 ELSE Converted([opened EXCEPT ![dst] = pack(fmt_out, data)])

\* ---------------------------------------------- inputs of the transcoder
\* byte values: zero, a small value, the largest
ByteVals == {0, 2, 255}

Buffers == SeqsUpTo(ByteVals, MaxBuf)

FileNames == {"a.bin", "b.bin"}

\* what the second file holds before any call
Stale == <<255>>

\* flat formats: the fallback, chars, a bool, a pad byte, shorts, an int,
\* raw runs, a Pascal string, mixed fields, and a format whose wildcard
\* placeholder was never resolved
FlatFormats ==
    { <<"*">>, <<"c">>, <<"?">>, <<"x", "c">>, <<"h">>, <<"2", "h">>,
      <<"i">>, <<"2", "s">>, <<"3", "p">>, <<"h", "b">>, <<"b", "?", "h">>,
      Placeholder }

ByteOrders == {"little", "big"}

\* ---------------------------------------------------- transcoder's state
VARIABLES
    files,      \* the contents of each file
    fmt,        \* the flat format of the run
    first,      \* the first call: its arguments and outcome
    second,     \* the second call: its arguments and outcome
    round       \* "none", "first", "second": the calls made

transcoder == <<files, fmt, first, second, round>>

vars == <<compiler, transcoder>>

\* a call's record: arguments, the files before, how it ended
CallRecord(source, destination, byte_order, before, out) ==
    [source |-> source, destination |-> destination, byte_order |-> byte_order,
     before |-> before, status |-> out.status, error |-> out.error]

NoCall ==
    [source |-> "", destination |-> None, byte_order |-> None,
     before |-> <<>>, status |-> "none", error |-> ""]

InitTranscoder ==
    /\ \E buf \in Buffers :
          files = [n \in FileNames |-> IF n = "a.bin" THEN buf ELSE Stale]
    /\ fmt \in FlatFormats
    /\ first = NoCall
    /\ second = NoCall
    /\ round = "none"

IdleTranscoder ==
    /\ files = [n \in FileNames |-> <<>>]
    /\ fmt = <<"*">>
    /\ first = NoCall
    /\ second = NoCall
    /\ round = "none"

IdleCompiler ==
    /\ formats = Fallback
    /\ size = None
    /\ expand = FALSE
    /\ truediv = FALSE
    /\ supplied = Fallback
    /\ ret = NoReturn
    /\ size2 = None
    /\ expand2 = FALSE
    /\ ret2 = NoReturn
    /\ pc = "idle"

\* convert(source, destination, byte_order, fmt): the first call
ConvertFirst ==
    /\ round = "none"
    /\ \E destination \in {None} \cup {Some(n) : n \in FileNames},
          byte_order \in {None} \cup {Some(o) : o \in ByteOrders} :
          LET out == convert(files, "a.bin", destination, byte_order, fmt)
          IN  /\ files' = out.files
              /\ first' = CallRecord("a.bin", destination, byte_order, files, out)
    /\ round' = "first"
    /\ UNCHANGED <<fmt, second, compiler>>

\* a second call with the same format, once the first has returned
ConvertSecond ==
    /\ round = "first"
    /\ first.status = "ok"
    /\ \E source \in FileNames,
          destination \in {None} \cup {Some(n) : n \in FileNames},
          byte_order \in {None} \cup {Some(o) : o \in ByteOrders} :
          LET out == convert(files, source, destination, byte_order, fmt)
          IN  /\ files' = out.files
              /\ second' = CallRecord(source, destination, byte_order, files, out)
    /\ round' = "second"
    /\ UNCHANGED <<fmt, first, compiler>>

\* ------------------------------------------------------- specifications
Init == InitCompiler /\ IdleTranscoder

Next ==
    \/ Call /\ UNCHANGED transcoder
    \/ CallAgain /\ UNCHANGED transcoder

\* the layout descriptor compiler
Spec == Init /\ [][Next]_vars

InitConvert == IdleCompiler /\ InitTranscoder

NextConvert == ConvertFirst \/ ConvertSecond

\* the endianness transcoder
SpecConvert == InitConvert /\ [][NextConvert]_vars

\* ------------------------------------------- the descriptor mini-language
\* The grammar of the layout descriptor, read from the specification:
\*   token := pattern (':' count)?   count := positive-integer | '*'
PatternOf(token) == Split(token, <<>>, <<>>)[1]

HasCount(token) == Len(Split(token, <<>>, <<>>)) = 2

CountOf(token) ==
    IF HasCount(token) THEN Int_(Split(token, <<>>, <<>>)[2]) ELSE 1

\* the token carries the wildcard count
IsWildcard(token) ==
    HasCount(token) /\ Split(token, <<>>, <<>>)[2] = <<"*">>

\* a Field Pattern Token of the grammar: one or more primitive codes, and a
\* count that is omitted, a positive integer or the wildcard
WellFormed(token) ==
    /\ Len(Split(token, <<>>, <<>>)) <= 2
    /\ PatternOf(token) # <<>>
    /\ ValidFormat(PatternOf(token))
    /\ HasCount(token) =>
          \/ IsWildcard(token)
          \/ AllDigits(Split(token, <<>>, <<>>)[2]) /\ CountOf(token) > 0

WellFormedDescriptor(d) == \A j \in 1..Len(d) : WellFormed(d[j])

Wildcards(d) == {j \in 1..Len(d) : IsWildcard(d[j])}

OneWildcard(d) == Cardinality(Wildcards(d)) = 1

WildcardIndex(d) == CHOOSE j \in Wildcards(d) : TRUE

\* packed (unaligned, standard-size) byte width of a pattern
PackedWidth(pattern) == calcsize(<<"=">> \o pattern)

\* sum over the non-wildcard tokens of count * packed width(pattern)
RECURSIVE FixedPacked(_)
FixedPacked(d) ==
    IF d = <<>> THEN 0
    ELSE (IF IsWildcard(Head(d)) THEN 0
          ELSE CountOf(Head(d)) * PackedWidth(PatternOf(Head(d))))
         + FixedPacked(Tail(d))

\* the tokens expanded in order, the wildcard token by the string w
RECURSIVE Expansion(_, _)
Expansion(d, w) ==
    IF d = <<>> THEN <<>>
    ELSE (IF IsWildcard(Head(d)) THEN w
          ELSE Repeat(PatternOf(Head(d)), CountOf(Head(d))))
         \o Expansion(Tail(d), w)

\* the flat format of d with its wildcard pattern repeated k times
ExpandedWith(d, k) ==
    Expansion(d, Repeat(PatternOf(d[WildcardIndex(d)]), k))

\* no pattern of d, repeated as its token says, is padded by native
\* alignment: its native size is its packed size
Unpadded(d) ==
    \A j \in 1..Len(d) :
        /\ calcsize(PatternOf(d[j])) = PackedWidth(PatternOf(d[j]))
        /\ ~IsWildcard(d[j]) =>
              calcsize(Repeat(PatternOf(d[j]), CountOf(d[j])))
                  = CountOf(d[j]) * PackedWidth(PatternOf(d[j]))

\* remaining = total_size - fixed size consumed, and the wildcard's width
Remaining(d, sz) == The(sz) - FixedPacked(d)
WildcardWidth(d) == PackedWidth(PatternOf(d[WildcardIndex(d)]))

\* ---------------------------------------------------------------- claims

\* C1: for every non-fallback descriptor and every supplied total_size
\* (0 included), a call that returns normally returns a flat format whose
\* packed byte size equals total_size.
C1_ReturnedSizeEqualsTotal ==
    (pc = "called" /\ supplied # Fallback /\ size # None /\ ret.status = "ok")
        => /\ ValidFormat(<<"=">> \o ret.fmt)
           /\ calcsize(<<"=">> \o ret.fmt) = The(size)

\* C4: for a descriptor with exactly one wildcard token and a supplied
\* total_size, whenever total_size - fixed is non-negative and divisible by
\* the wildcard pattern's packed width w, the call succeeds and the flat
\* format has the wildcard pattern repeated (total_size - fixed) / w times
\* at the wildcard's position.  Stated for the interpreter whose / floors,
\* so that the division itself cannot be what fails.
C4_WildcardResolves ==
    (/\ pc = "called" /\ ~truediv /\ size # None
     /\ WellFormedDescriptor(supplied) /\ OneWildcard(supplied)
     /\ Remaining(supplied, size) >= 0
     /\ Remaining(supplied, size) % WildcardWidth(supplied) = 0)
        => /\ ret.status = "ok"
           /\ ret.fmt = ExpandedWith(supplied,
                  Remaining(supplied, size) \div WildcardWidth(supplied))

\* C5: for a descriptor with one wildcard token and a supplied total_size,
\* the call fails with DivisionError whenever remaining is negative or is
\* not a multiple of the wildcard pattern's width.  Stated for descriptors
\* without alignment padding, where the fixed size consumed is the same
\* number however it is measured.
C5_DivisionErrorRaised ==
    (/\ pc = "called" /\ size # None
     /\ WellFormedDescriptor(supplied) /\ OneWildcard(supplied)
     /\ Unpadded(supplied)
     /\ \/ Remaining(supplied, size) < 0
        \/ Remaining(supplied, size) % WildcardWidth(supplied) # 0)
        => ret.status = "error" /\ ret.error = "DivisionError"

\* C6: any descriptor in which two or more tokens carry the wildcard count
\* fails with MultipleWildcards, whatever total_size and whatever the
\* patterns of the wildcard tokens; nothing is returned.  Stated for
\* descriptors whose wildcard tokens have different patterns that struct
\* accepts, as in the specification's own example.
C6_MultipleWildcardsRejected ==
    (/\ pc = "called"
     /\ \A j \in 1..Len(supplied) : ValidFormat(PatternOf(supplied[j]))
     /\ Cardinality(Wildcards(supplied)) >= 2
     /\ \A j, l \in Wildcards(supplied) :
            j # l => PatternOf(supplied[j]) # PatternOf(supplied[l]))
        => ret.status = "error" /\ ret.error = "MultipleWildcards"

\* C8: for a descriptor of the grammar with one wildcard and a supplied
\* total_size that resolves successfully: with expand false the returned tokens are the
\* supplied ones, wildcard marker included; with expand true they differ
\* from the supplied ones only at the wildcard's index, where the '*' is
\* replaced by the decimal literal of an integer k such that the flat
\* format is the descriptor expanded with the wildcard pattern repeated k
\* times, and recompiling the returned tokens with the same total_size
\* yields the same flat format.
C8_Resolved ==
    /\ pc # "start" /\ size # None /\ ret.status = "ok"
    /\ WellFormedDescriptor(supplied) /\ OneWildcard(supplied)

C8_ExpandedToken(token, pattern, k) ==
    /\ token = pattern \o <<":">> \o Str(k)
    /\ ret.fmt = ExpandedWith(supplied, k)

C9_Deferred ==
    (/\ pc = "called" /\ size = None
     /\ WellFormedDescriptor(supplied) /\ OneWildcard(supplied))
        => /\ ret.status = "ok"
           /\ ret.fmt = Expansion(supplied, Placeholder)
           /\ ret.formats = supplied

\* C9 witness: an expanding call without total_size on a descriptor with a
\* fixed token and a wildcard token has returned
C9_Witness ==
    /\ pc = "called" /\ size = None /\ expand
    /\ WellFormedDescriptor(supplied) /\ OneWildcard(supplied)
    /\ Len(supplied) = 2
    /\ ret.status = "ok"

\* C10: after any call, successful or failing, with expand true or false,
\* the caller's token list holds the same tokens as before the call.
C10_CallerListUnchanged ==
    pc = "called" => formats = supplied

\* ------------------------------------------------- the transcoder's claims
\* the call made last, the file it writes, the buffer it read and the
\* format it used
Last == IF round = "second" THEN second ELSE first
Target(c) == DestinationFor(c.source, c.destination)
Input(c) == c.before[c.source]
FormatOf(c) == FormatFor(c.before, c.source, fmt)

\* the byte-order flip of a buffer laid out by items: every field of a
\* multi-byte numeric code ('h', 'i') reversed in place, every other byte
\* copied through
RECURSIVE FlipFields(_, _, _)
FlipFields(bs, n, width) ==
    IF n = 0 THEN <<>>
    ELSE Reverse(SubSeq(bs, 1, width))
         \o FlipFields(SubSeq(bs, width + 1, Len(bs)), n - 1, width)

RECURSIVE Flipped(_, _)
Flipped(items, bs) ==
    IF items = <<>> THEN <<>>
    ELSE LET it == Head(items)
             w == it.n * ItemSize(it.c)
         IN  (IF it.c \in {"h", "i"} THEN FlipFields(SubSeq(bs, 1, w), it.n, ItemSize(it.c))
              ELSE SubSeq(bs, 1, w))
             \o Flipped(Tail(items), SubSeq(bs, w + 1, Len(bs)))

\* the buffer of call c has the length its format implies
Fits(c) ==
    /\ ValidFormat(FormatOf(c))
    /\ Len(Input(c)) = PackedWidth(FormatOf(c))

\* C2: for every flat format and every buffer of the format's packed size,
\* for either destination order, convert writes an output of the same
\* length in which each multi-byte numeric field has its bytes reversed at
\* the same offset and each single-byte or opaque raw-byte field is copied
\* through unchanged.
C2_PureByteOrderFlip ==
    (round # "none" /\ Fits(Last))
        => /\ Last.status = "ok"
           /\ files[Target(Last)] = Flipped(ItemsOf(FormatOf(Last)), Input(Last))

\* C3: converting a buffer to one byte order and then converting the result
\* to the other byte order with the same format yields the original buffer.
C3_RoundTrip ==
    (/\ round = "second" /\ Fits(first)
     /\ second.source = Target(first)
     /\ OrderFor(second.byte_order) # OrderFor(first.byte_order))
        => /\ second.status = "ok"
           /\ files[Target(second)] = Input(first)

\* C7: when the length of the source differs from the byte size the flat
\* format implies, convert raises the layout-size error and the destination
\* (the source itself when none is given) keeps its previous contents; every
\* call either fails and leaves all files untouched, or succeeds and leaves
\* a destination as long as the buffer read, the other file untouched.
C7_AtomicOnFailure ==
    round # "none" =>
        /\ (ValidFormat(FormatOf(Last)) /\ ~Fits(Last))
              => Last.status = "error" /\ Last.error = "LayoutSizeMismatch"
        /\ Last.status = "error" => files = Last.before
        /\ Last.status = "ok" =>
              /\ Len(files[Target(Last)]) = Len(Input(Last))
              /\ \A n \in FileNames \ {Target(Last)} : files[n] = Last.before[n]

\* C7 witness: a call that overwrites its source failed on a non-empty
\* source whose length the format does not imply
C7_Witness ==
    /\ round # "none"
    /\ Last.destination = None
    /\ Last.status = "error" /\ Last.error = "LayoutSizeMismatch"
    /\ Input(Last) # <<>>

====
